---- MODULE Spec2Model ----
(***************************************************************************)
(* Model of the covid-papers-browser Elasticsearch loader/indexer          *)
(* (src/data_providers/ElasticSearchProvider.py).                          *)
(*                                                                         *)
(* State: the pickle files on disk, the lazy record stream built by        *)
(* from_pkls / from_pkl (a Python generator, modelled by its position),    *)
(* the provider (self.doc, the position of __call__), the engine (the      *)
(* index of the configured name and its documents) and, as history, the    *)
(* engine calls issued, the records the stream yielded and the files it    *)
(* opened.                                                                 *)
(***************************************************************************)
EXTENDS Integers, Sequences, FiniteSets, TLC

VARIABLES
    files,          \* disk: sequence of pickle files, [ok, recs]
    mode,           \* "pkls" (from_pkls) or "pkl" (from_pkl)
    n_paragraphs,   \* the n_paragraphs argument of the classmethod
    gpc,            \* generator position: "open", "iter", "pkl", "finished"
    fi,             \* generator: index of the current file in filepaths
    ei,             \* generator: number of entries of the file already taken
    entries,        \* generator: the list unpickled from the current file
    doc,            \* self.doc
    batch_size,     \* the batch_size argument the caller passes to __call__
    pc,             \* position of __call__: idle, drop, create, loop,
                    \* appended, done, failed
    err,            \* what terminated the run: none, delete, create, bulk, stream
    run,            \* number of __call__ invocations so far
    startLen,       \* history: len(self.doc) when the current run started
    startGpc,       \* history: the generator position when the run started
    indexExists,    \* engine: an index of the configured name exists
    indexDocs,      \* engine: the documents of that index
    log,            \* history: engine calls, [op, run, status, batch, at];
                    \* at = number of records yielded before the call
    yielded,        \* history: records handed to the loop, [run, rec]
    opened,         \* history: file indices the stream tried to open
    warnings,       \* history: file indices logged by logging.warning
    saved,          \* the file written by save(): <<>> or <<content>>
    searcher,       \* the Elasticsearcher object: [index_name]
    searchLog       \* history: searches, [index, vector, body, response, returned]

vars == <<files, mode, n_paragraphs, gpc, fi, ei, entries, doc, batch_size,
          pc, err, run, startLen, startGpc, indexExists, indexDocs, log, yielded,
          opened, warnings, saved, searcher, searchLog>>

-----------------------------------------------------------------------------
(* Bounds of the model *)

MaxFiles == 2       \* files matched by the glob
MaxRecs == 2        \* records per pickle file
MaxPar == 2         \* paragraphs (and embeddings) per record on disk
MaxBatch == 3       \* batch_size argument
MaxRuns == 2        \* invocations of __call__ on one provider
MaxDim == 2         \* length of a query vector
MaxHits == 2        \* hits in an engine response
MaxSearches == 2    \* invocations of Elasticsearcher.__call__

(* Program constants *)

DefaultNParagraphs == 100
StatusOk == 200
StatusNotFound == 404
StatusUnavailable == 503
ResultSize == 25

IndexName == "covid-19"

Min(a, b) == IF a <= b THEN a ELSE b
Max(a, b) == IF a >= b THEN a ELSE b

-----------------------------------------------------------------------------
(* Records: Python dicts, modelled as functions from keys to values *)

ParList(p) == [i \in 1..p |-> i]
EmbList(e) == [i \in 1..e |-> 0 - i]

Has(d, k) == k \in DOMAIN d

PlainRec(f, i) == [cord_id |-> <<f, i>>]
ParRec(f, i, p, e) ==
    [cord_id |-> <<f, i>>, paragraphs |-> ParList(p),
     paragraphs_embeddings |-> EmbList(e)]
\* a record with 'paragraphs' but no 'paragraphs_embeddings'
NoEmbRec(f, i) == [cord_id |-> <<f, i>>, paragraphs |-> ParList(MaxPar)]
\* a record that already carries bulk metadata fields
TaggedRec(f, i) == [cord_id |-> <<f, i>>, _op_type |-> "delete", _index |-> "other"]

Unreadable == [ok |-> FALSE, recs |-> <<>>]

StructKinds == {"plain", "noemb"}
MkRec(f, i, kind) == IF kind = "plain" THEN PlainRec(f, i) ELSE NoEmbRec(f, i)

\* the possible contents of the f-th file: unreadable, or up to MaxRecs records
FileChoices(f) ==
    {Unreadable} \cup
    UNION {{[ok |-> TRUE, recs |-> [i \in 1..L |-> MkRec(f, i, ks[i])]] :
                ks \in [1..L -> StructKinds]} : L \in 0..MaxRecs}

\* the records of a directory that lack 'paragraphs_embeddings'
NoEmbCount(fs) ==
    Cardinality({<<f, i>> \in (1..Len(fs)) \X (1..MaxRecs) :
        i <= Len(fs[f].recs) /\ ~Has(fs[f].recs[i], "paragraphs_embeddings")
                             /\ Has(fs[f].recs[i], "paragraphs")})

\* directories of up to MaxFiles files, at most one record of which is malformed
StructFS ==
    UNION {{fs \in [1..k -> UNION {FileChoices(f) : f \in 1..k}] :
                /\ \A f \in 1..k : fs[f] \in FileChoices(f)
                /\ NoEmbCount(fs) <= 1} : k \in 0..MaxFiles}

\* one-record files whose record carries paragraph lists of every length
ContentRecs ==
    {ParRec(1, 1, p, e) : p \in 0..MaxPar, e \in 0..MaxPar} \cup {TaggedRec(1, 1)}
ContentFS == {<<[ok |-> TRUE, recs |-> <<r>>]>> : r \in ContentRecs}

NParChoices == {0 - 1} \cup (0..(MaxPar + 1))

-----------------------------------------------------------------------------
(* Pure functions of the code *)

\* Python's lst[:n]
PySlice(s, n) ==
    IF n >= 0 THEN SubSeq(s, 1, Min(n, Len(s)))
    ELSE SubSeq(s, 1, Max(Len(s) + n, 0))

\* variant: only the paragraph list is cut
TruncateParagraphsOnly(entry, n) ==
    [entry EXCEPT !["paragraphs"] = PySlice(@, n)]

\* lines 124-126: both lists are cut with the same limit
Truncate(entry, n) ==
    [entry EXCEPT !["paragraphs"] = PySlice(@, n),
                  !["paragraphs_embeddings"] = PySlice(@, n)]

\* variant: the merge is written the other way round, {**meta, **entry}
TagKeepExisting(entry) ==
    [k \in DOMAIN entry \cup {"_op_type", "_index"} |->
        IF k \in DOMAIN entry THEN entry[k]
        ELSE IF k = "_op_type" THEN "index"
        ELSE IndexName]

\* lines 69-75: {**entry, '_op_type': 'index', '_index': self.index_name}
Tag(entry) ==
    [k \in DOMAIN entry \cup {"_op_type", "_index"} |->
        IF k = "_op_type" THEN "index"
        ELSE IF k = "_index" THEN IndexName
        ELSE entry[k]]

\* variant: the record is put in front of the buffer
PrependDoc(d, e) == <<e>> \o d

\* line 77: self.doc.append(entry_elastic)
AppendDoc(d, e) == Append(d, e)

\* variant: the threshold must be exceeded
ShouldBulkStrict(d, b) == Len(d) > b

\* line 78
ShouldBulk(d, b) == Len(d) >= b

\* variant: the buffer is not cleared after the bulk write
KeptDoc == doc

\* line 81: self.doc = []
ClearedDoc == <<>>

\* variant: no status is ignored
DropIgnoreNothing == {}

\* client.indices.delete(..., ignore=[404]): statuses that do not raise
DropIgnore == {StatusNotFound}
Raises(status, ignore) == status >= 300 /\ status \notin ignore

\* the engine's answers: a delete is answered from the state of the index
DeleteResponses == {IF indexExists THEN StatusOk ELSE StatusNotFound}
CreateResponses == {StatusOk, StatusUnavailable}

\* variant: create_index() is not called
AfterDropSkipCreate == "loop"

\* __call__, lines 90-94: what follows each step when it returns
AfterDrop == "create"
AfterCreate == "loop"

\* variants: the error is swallowed and the run goes on
OnCreateErrorContinue == "loop"
OnBulkErrorContinue == "loop"

\* no try/except around create_index() or bulk(): the error ends the run
OnCreateError == "failed"
OnBulkError == "failed"

\* variant: a re-iterable stream, which starts again from the first file
GenRewound == [gpc |-> "open", fi |-> 1]

\* a generator that has returned stays finished: every later next() raises
\* StopIteration
GenAfterStop == [gpc |-> "finished", fi |-> fi]

\* variant: the try block encloses the outer loop, an error ends the stream
OnFileErrorAbandon(f) == Len(files) + 1

\* lines 132-133: the exception is logged and the outer for loop goes on
OnFileError(f) == f + 1

-----------------------------------------------------------------------------
(* Initial states *)

InitCommon ==
    /\ fi = 1
    /\ ei = 0
    /\ entries = <<>>
    /\ doc = <<>>
    /\ pc = "idle"
    /\ err = "none"
    /\ run = 0
    /\ startLen = 0
    /\ startGpc = gpc
    /\ indexDocs = <<>>
    /\ log = <<>>
    /\ yielded = <<>>
    /\ opened = <<>>
    /\ warnings = <<>>
    /\ saved = <<>>
    /\ searcher = [index_name |-> IndexName]
    /\ searchLog = <<>>

\* from_pkls over a directory: the generator is created, nothing is read yet.
\* The caller passes the same batch_size to every __call__ of a provider.
\* The engine starts without the index: the first drop() meets a missing index,
\* a later one the index an earlier __call__ created.
InitPkls ==
    /\ mode = "pkls"
    /\ gpc = "open"
    /\ \/ /\ files \in StructFS
          /\ n_paragraphs = DefaultNParagraphs
          /\ batch_size \in 1..MaxBatch
          /\ indexExists = FALSE
       \/ /\ files \in ContentFS
          /\ n_paragraphs \in NParChoices
          /\ batch_size = 1
          /\ indexExists = FALSE

\* from_pkl over one file: the file was unpickled by the classmethod
InitPkl ==
    /\ mode = "pkl"
    /\ gpc = "pkl"
    /\ files \in {fs \in StructFS : Len(fs) = 1 /\ fs[1].ok}
    /\ n_paragraphs = DefaultNParagraphs
    /\ batch_size \in 1..MaxBatch
    /\ indexExists = FALSE

Init == (InitPkls \/ InitPkl) /\ InitCommon

-----------------------------------------------------------------------------
(* The provider *)

provVars == <<doc, batch_size, pc, err, run, startLen, startGpc>>
genVars == <<gpc, fi, ei, entries>>
engineVars == <<indexExists, indexDocs>>
histVars == <<log, yielded, opened, warnings>>
inputVars == <<files, mode, n_paragraphs>>
searchVars == <<searcher, searchLog>>

LogEntry(op, status, batch) ==
    [op |-> op, run |-> run, status |-> status, batch |-> batch, at |-> Len(yielded)]

\* es_provider(batch_size): __call__ is entered. save() changes nothing of
\* the provider, so a provider is followed up to its save and no further.
Call ==
    /\ pc \in {"idle", "done", "failed"}
    /\ run < MaxRuns
    /\ saved = <<>>
    /\ batch_size' = batch_size
    /\ run' = run + 1
    /\ pc' = "drop"
    /\ err' = "none"
    /\ startLen' = Len(doc)
    /\ startGpc' = gpc
    /\ UNCHANGED <<doc, genVars, engineVars, histVars, inputVars, searchVars, saved>>

\* self.drop()
Drop ==
    /\ pc = "drop"
    /\ \E status \in DeleteResponses :
        /\ log' = Append(log, LogEntry("delete", status, <<>>))
        /\ IF status = StatusOk
             THEN indexExists' = FALSE /\ indexDocs' = <<>>
             ELSE UNCHANGED engineVars
        /\ IF Raises(status, DropIgnore)
             THEN pc' = "failed" /\ err' = "delete"
             ELSE pc' = AfterDrop /\ err' = err
    /\ UNCHANGED <<doc, batch_size, run, startLen, startGpc, genVars, yielded,
                   opened, warnings, inputVars, searchVars, saved>>

\* self.create_index()
CreateIndex ==
    /\ pc = "create"
    /\ \E status \in CreateResponses :
        /\ log' = Append(log, LogEntry("create", status, <<>>))
        /\ IF status = StatusOk /\ ~indexExists
             THEN /\ indexExists' = TRUE /\ indexDocs' = <<>>
                  /\ pc' = AfterCreate /\ err' = err
             ELSE /\ UNCHANGED engineVars
                  /\ pc' = OnCreateError /\ err' = "create"
    /\ UNCHANGED <<doc, batch_size, run, startLen, startGpc, genVars, yielded,
                   opened, warnings, inputVars, searchVars, saved>>

-----------------------------------------------------------------------------
(* The record stream of from_pkls, advanced by the for loop of               *)
(* create_and_bulk_documents                                                *)

\* for file_path in filepaths: open and unpickle the next file
GenOpen ==
    /\ pc = "loop" /\ gpc = "open" /\ fi <= Len(files)
    /\ opened' = Append(opened, fi)
    /\ IF files[fi].ok
         THEN /\ entries' = files[fi].recs
              /\ ei' = 0
              /\ gpc' = "iter"
              /\ UNCHANGED <<fi, warnings>>
         ELSE \* except Exception: logging.warning, next file
              /\ warnings' = Append(warnings, fi)
              /\ fi' = OnFileError(fi)
              /\ UNCHANGED <<entries, ei, gpc>>
    /\ UNCHANGED <<provVars, engineVars, log, yielded, inputVars, searchVars, saved>>

\* the loop body of create_and_bulk_documents up to the append (lines 69-77)
Consume(entry) ==
    /\ doc' = AppendDoc(doc, Tag(entry))
    /\ yielded' = Append(yielded, [run |-> run, rec |-> entry])
    /\ pc' = "appended"

\* for entry in entries: truncate and yield; the loop body appends
GenYield ==
    /\ pc = "loop" /\ gpc = "iter" /\ ei < Len(entries)
    /\ LET entry == entries[ei + 1] IN
        /\ ~Has(entry, "paragraphs") \/ Has(entry, "paragraphs_embeddings")
        /\ LET out == IF Has(entry, "paragraphs")
                        THEN Truncate(entry, n_paragraphs) ELSE entry IN
            /\ entries' = [entries EXCEPT ![ei + 1] = out]
            /\ ei' = ei + 1
            /\ Consume(out)
    /\ UNCHANGED <<gpc, fi, batch_size, err, run, startLen, startGpc,
                   engineVars, log, opened, warnings, inputVars, searchVars, saved>>

\* variant: the try block is inside the inner loop, only the entry is skipped
AfterEntryErrorSkipEntry ==
    [gpc |-> "iter", fi |-> fi, ei |-> ei + 1, entries |-> entries]

\* lines 115-133: the try block encloses the inner loop, so the exception
\* leaves the whole file; what was yielded before stays yielded
AfterEntryError ==
    [gpc |-> "open", fi |-> OnFileError(fi), ei |-> 0, entries |-> <<>>]

\* entry['paragraphs_embeddings'] raises KeyError: caught, the file is left
GenEntryError ==
    /\ pc = "loop" /\ gpc = "iter" /\ ei < Len(entries)
    /\ LET entry == entries[ei + 1] IN
        /\ Has(entry, "paragraphs") /\ ~Has(entry, "paragraphs_embeddings")
    /\ warnings' = Append(warnings, fi)
    /\ entries' = AfterEntryError.entries
    /\ ei' = AfterEntryError.ei
    /\ fi' = AfterEntryError.fi
    /\ gpc' = AfterEntryError.gpc
    /\ UNCHANGED <<provVars, engineVars, log, yielded, opened, inputVars, searchVars, saved>>

\* the inner loop is over: del entries, next file
GenEndFile ==
    /\ pc = "loop" /\ gpc = "iter" /\ ei = Len(entries)
    /\ entries' = <<>>
    /\ ei' = 0
    /\ fi' = fi + 1
    /\ gpc' = "open"
    /\ UNCHANGED <<provVars, engineVars, histVars, inputVars, searchVars, saved>>

\* StopIteration: filepaths is exhausted (or the generator had finished);
\* the for loop ends and __call__ returns self
GenStop ==
    /\ pc = "loop"
    /\ \/ gpc = "open" /\ fi > Len(files)
       \/ gpc = "finished"
    /\ gpc' = GenAfterStop.gpc
    /\ fi' = GenAfterStop.fi
    /\ pc' = "done"
    /\ UNCHANGED <<ei, entries, doc, batch_size, err, run, startLen, startGpc,
                   engineVars, histVars, inputVars, searchVars, saved>>

\* from_pkl: `del entries` makes entries a local of _stream, so the first
\* next() raises UnboundLocalError at `for entry in tqdm(entries)`
GenPklRaise ==
    /\ pc = "loop" /\ gpc = "pkl"
    /\ gpc' = "finished"
    /\ pc' = "failed"
    /\ err' = "stream"
    /\ UNCHANGED <<fi, ei, entries, doc, batch_size, run, startLen, startGpc,
                   engineVars, histVars, inputVars, searchVars, saved>>

-----------------------------------------------------------------------------
(* Lines 78-81 *)

\* should_bulk is false: next iteration
NoBulk ==
    /\ pc = "appended"
    /\ ~ShouldBulk(doc, batch_size)
    /\ pc' = "loop"
    /\ UNCHANGED <<doc, batch_size, err, run, startLen, startGpc, genVars,
                   engineVars, histVars, inputVars, searchVars, saved>>

\* bulk(self.client, self.doc) returns; self.doc = []
BulkOk ==
    /\ pc = "appended"
    /\ ShouldBulk(doc, batch_size)
    /\ log' = Append(log, LogEntry("bulk", StatusOk, doc))
    /\ indexExists' = TRUE
    /\ indexDocs' = indexDocs \o doc
    /\ doc' = ClearedDoc
    /\ pc' = "loop"
    /\ UNCHANGED <<batch_size, err, run, startLen, startGpc, genVars, yielded,
                   opened, warnings, inputVars, searchVars, saved>>

\* variant: the buffer is cleared whether or not the bulk write succeeded
DocAfterBulkErrorCleared == <<>>

\* lines 80-81: the exception leaves before self.doc = [] is reached
DocAfterBulkError == doc

\* bulk raises (part of the batch may have been written)
BulkFail ==
    /\ pc = "appended"
    /\ ShouldBulk(doc, batch_size)
    /\ log' = Append(log, LogEntry("bulk", StatusUnavailable, doc))
    /\ \E k \in 0..(Len(doc) - 1) : indexDocs' = indexDocs \o SubSeq(doc, 1, k)
    /\ pc' = OnBulkError
    /\ err' = "bulk"
    /\ doc' = DocAfterBulkError
    /\ UNCHANGED <<batch_size, run, startLen, startGpc, genVars,
                   indexExists, yielded, opened, warnings, inputVars, searchVars, saved>>

\* save(out_path): json.dumps(self.doc) is written
Save ==
    /\ pc \in {"done", "failed"}
    /\ saved # <<doc>>
    /\ saved' = <<doc>>
    /\ UNCHANGED <<provVars, genVars, engineVars, histVars, inputVars, searchVars>>

Next ==
    \/ Call
    \/ Drop
    \/ CreateIndex
    \/ GenOpen
    \/ GenYield
    \/ GenEntryError
    \/ GenEndFile
    \/ GenStop
    \/ GenPklRaise
    \/ NoBulk
    \/ BulkOk
    \/ BulkFail
    \/ Save

Spec == Init /\ [][Next]_vars

-----------------------------------------------------------------------------
(* The query client (src/searchers/ElasticSearcher.py), a separate object    *)
(* that shares only the engine with the provider                             *)

Vectors == [1..MaxDim -> {0, 1}]

\* what client.search may return
Responses == {[hits |-> [i \in 1..n |-> i]] : n \in 0..MaxHits}

ScriptSource ==
    "cosineSimilarity(params.query_vector, doc['title_abstract_embeddings']) + 1.0"

\* variant: the size follows the length of the vector
QueryBodySizedByVector(vector) ==
    [size |-> Len(vector),
     query |-> [script_score |->
        [query |-> [match_all |-> <<>>],
         script |-> [source |-> ScriptSource,
                     params |-> [query_vector |-> vector]]]],
     _source |-> [includes |-> <<"title", "abstract">>]]

\* lines 14-37: the body passed to client.search
QueryBody(vector) ==
    [size |-> ResultSize,
     query |-> [script_score |->
        [query |-> [match_all |-> <<>>],
         script |-> [source |-> ScriptSource,
                     params |-> [query_vector |-> vector]]]],
     _source |-> [includes |-> <<"title", "abstract">>]]

\* line 39: return res
SearchReturn(res) == res

\* Elasticsearcher.__call__(vector)
Search ==
    /\ Len(searchLog) < MaxSearches
    /\ \E vector \in Vectors, res \in Responses :
        searchLog' = Append(searchLog,
            [index |-> searcher.index_name, vector |-> vector,
             body |-> QueryBody(vector), response |-> res,
             returned |-> SearchReturn(res)])
    /\ UNCHANGED <<provVars, genVars, engineVars, histVars, inputVars, saved,
                   searcher>>

\* a searcher next to a provider that is not run
InitSearch ==
    /\ mode = "pkls"
    /\ gpc = "open"
    /\ files = <<>>
    /\ n_paragraphs = DefaultNParagraphs
    /\ batch_size = 1
    /\ indexExists = TRUE
    /\ InitCommon

NextSearch == Search

SpecSearch == InitSearch /\ [][NextSearch]_vars

-----------------------------------------------------------------------------
(* Projections of the history *)

\* the engine calls of run r, and its bulk writes
RunLog(r) == SelectSeq(log, LAMBDA e : e.run = r)
RunBulks(r) == SelectSeq(log, LAMBDA e : e.run = r /\ e.op = "bulk")

\* the records the stream handed to the loop in run r, in order
RunRecs(r) ==
    LET ys == SelectSeq(yielded, LAMBDA y : y.run = r)
    IN [i \in 1..Len(ys) |-> ys[i].rec]

\* the record on disk a yielded record was read from
Orig(rec) == files[rec.cord_id[1]].recs[rec.cord_id[2]]

WellFormed(rec) == ~Has(rec, "paragraphs") \/ Has(rec, "paragraphs_embeddings")

\* the records of file f that precede its first processing error
CleanCount(f) ==
    IF ~files[f].ok THEN 0
    ELSE Cardinality({i \in 1..Len(files[f].recs) :
                        \A j \in 1..i : WellFormed(files[f].recs[j])})

IdLess(a, b) == a[1] < b[1] \/ (a[1] = b[1] /\ a[2] < b[2])
IsPrefix(s, t) == Len(s) <= Len(t) /\ \A i \in 1..Len(s) : s[i] = t[i]
CeilDiv(n, b) == (n + b - 1) \div b
LastCall == log[Len(log)]

-----------------------------------------------------------------------------
(* C1: a run that starts with an empty buffer and consumes N records with    *)
(* batch size B has issued, when the stream ends, ceil(N / B) bulk writes,   *)
(* one less when N is not a multiple of B (the trailing partial batch is     *)
(* not flushed).                                                             *)
C1_FlushCount ==
    (pc = "done" /\ startLen = 0) =>
        LET N == Len(RunRecs(run))
            B == batch_size
        IN Len(RunBulks(run)) = CeilDiv(N, B) - (IF N % B # 0 THEN 1 ELSE 0)

C1_Witness ==
    /\ pc = "done" /\ startLen = 0
    /\ Len(RunRecs(run)) % batch_size # 0
    /\ Len(RunBulks(run)) >= 1

(* C2: in a run that starts with an empty buffer the k-th bulk write holds   *)
(* exactly the records at stream positions (k-1)*B+1 .. k*B in stream order, *)
(* no record is submitted in two bulk writes, and at the end of the stream   *)
(* the buffer holds exactly the last N mod B records, which no bulk write    *)
(* has carried.                                                              *)
C2_BatchContents ==
    startLen = 0 =>
        LET recs == RunRecs(run)
            bulks == RunBulks(run)
            B == batch_size
            N == Len(recs)
        IN /\ \A k \in 1..Len(bulks) :
                /\ Len(bulks[k].batch) = B
                /\ k * B <= N
                /\ \A j \in 1..B :
                    bulks[k].batch[j].cord_id = recs[(k - 1) * B + j].cord_id
           /\ \A k1, k2 \in 1..Len(bulks) :
                \A j1 \in 1..Len(bulks[k1].batch), j2 \in 1..Len(bulks[k2].batch) :
                    bulks[k1].batch[j1].cord_id = bulks[k2].batch[j2].cord_id
                        => (k1 = k2 /\ j1 = j2)
           /\ pc = "done" =>
                /\ Len(doc) = N % B
                /\ \A j \in 1..Len(doc) :
                    doc[j].cord_id = recs[N - (N % B) + j].cord_id
                /\ \A i \in 1..Len(log) : \A j \in 1..Len(log[i].batch) :
                    \A m \in 1..Len(doc) :
                        log[i].batch[j].cord_id # doc[m].cord_id

C2_Witness ==
    /\ pc = "done" /\ startLen = 0
    /\ batch_size >= 2
    /\ Len(RunBulks(run)) >= 2

C4_DropIgnoresMissing ==
    /\ err # "delete"
    /\ (log # <<>> /\ LastCall.op = "delete") =>
        /\ LastCall.status \in {StatusOk, StatusNotFound}
        /\ pc = "create"
        /\ err = "none"
        /\ ~indexExists
        /\ indexDocs = <<>>

\* a drop that deleted the index, followed by a drop of the missing index
C4_Witness ==
    /\ Len(log) >= 3
    /\ log[1].op = "delete" /\ log[1].status = StatusNotFound
    /\ log[2].op = "create"
    /\ LastCall.op = "delete" /\ LastCall.status = StatusOk
    /\ pc = "create"

(* C5: in the from_pkls stream an error on a source file never reaches the   *)
(* consumer; the stream goes on with the next file, no file is opened twice, *)
(* and once the stream has ended every record of every file that was         *)
(* processed without error (and of the others, the records before the        *)
(* error) has been yielded, in file order.                                   *)
C5_FileErrorsSkipped ==
    mode = "pkls" =>
        /\ err # "stream"
        /\ \A i, j \in 1..Len(opened) : i < j => opened[i] < opened[j]
        /\ \A i, j \in 1..Len(yielded) :
            i < j => IdLess(yielded[i].rec.cord_id, yielded[j].rec.cord_id)
        /\ gpc = "finished" =>
            {yielded[i].rec.cord_id : i \in 1..Len(yielded)} =
            {id \in (1..Len(files)) \X (1..MaxRecs) : id[2] <= CleanCount(id[1])}

\* an unreadable file followed by a file whose records were all yielded
C5_Witness ==
    /\ mode = "pkls" /\ gpc = "finished"
    /\ Len(files) = 2
    /\ ~files[1].ok
    /\ warnings = <<1>>
    /\ Len(files[2].recs) = 2
    /\ Len(yielded) = 2

(* C6 as stated: every yielded record that has a paragraph list and an       *)
(* embedding list has both of length <= n_paragraphs, of the same length,    *)
(* each a prefix of the original list; records without 'paragraphs' are      *)
(* yielded unchanged.                                                        *)
C6_AsStated ==
    \A k \in 1..Len(yielded) :
        LET y == yielded[k].rec
            o == Orig(y)
        IN IF Has(o, "paragraphs") /\ Has(o, "paragraphs_embeddings")
             THEN /\ Len(y.paragraphs) <= n_paragraphs
                  /\ Len(y.paragraphs_embeddings) <= n_paragraphs
                  /\ Len(y.paragraphs) = Len(y.paragraphs_embeddings)
                  /\ IsPrefix(y.paragraphs, o.paragraphs)
                  /\ IsPrefix(y.paragraphs_embeddings, o.paragraphs_embeddings)
             ELSE y = o

(* C6, amended: each list of a yielded record is a prefix of the original    *)
(* list; when n_paragraphs >= 0 its length is min(original length,           *)
(* n_paragraphs), hence <= n_paragraphs; the two lists have the same length  *)
(* when the original lists have the same length, or when n_paragraphs >= 0   *)
(* and both original lists have at least n_paragraphs elements; records      *)
(* without 'paragraphs' are yielded unchanged.                               *)
C6_Truncation ==
    \A k \in 1..Len(yielded) :
        LET y == yielded[k].rec
            o == Orig(y)
            n == n_paragraphs
        IN IF Has(o, "paragraphs") /\ Has(o, "paragraphs_embeddings")
             THEN /\ DOMAIN y = DOMAIN o
                  /\ y.cord_id = o.cord_id
                  /\ IsPrefix(y.paragraphs, o.paragraphs)
                  /\ IsPrefix(y.paragraphs_embeddings, o.paragraphs_embeddings)
                  /\ n >= 0 =>
                        /\ Len(y.paragraphs) = Min(Len(o.paragraphs), n)
                        /\ Len(y.paragraphs_embeddings) =
                                Min(Len(o.paragraphs_embeddings), n)
                  /\ (\/ Len(o.paragraphs) = Len(o.paragraphs_embeddings)
                      \/ /\ n >= 0
                         /\ Len(o.paragraphs) >= n
                         /\ Len(o.paragraphs_embeddings) >= n)
                        => Len(y.paragraphs) = Len(y.paragraphs_embeddings)
             ELSE y = o

\* a record whose two lists were cut to a shorter, non-empty prefix
C6_Witness ==
    \E k \in 1..Len(yielded) :
        LET y == yielded[k].rec
            o == Orig(y)
        IN /\ Has(o, "paragraphs") /\ Has(o, "paragraphs_embeddings")
           /\ n_paragraphs >= 1
           /\ Len(o.paragraphs) > n_paragraphs
           /\ Len(o.paragraphs_embeddings) > n_paragraphs
           /\ Len(y.paragraphs) = n_paragraphs
           /\ Len(y.paragraphs_embeddings) = n_paragraphs

(* C7 as stated: once a run (started with an empty buffer) has processed at  *)
(* least one record, self.doc is not empty and holds the last batch: the     *)
(* records processed since the previous batch boundary, up to and including  *)
(* the last one processed.                                                   *)
C7_DocHoldsLastBatch ==
    (startLen = 0 /\ pc \in {"loop", "done"} /\ Len(RunRecs(run)) >= 1) =>
        LET recs == RunRecs(run)
            N == Len(recs)
            size == ((N - 1) % batch_size) + 1
        IN /\ doc # <<>>
           /\ Len(doc) = size
           /\ \A j \in 1..Len(doc) :
                j <= size => doc[j].cord_id = recs[N - size + j].cord_id

(* C8: a failed bulk write ends the run: it is the last engine call of its   *)
(* run (no later bulk write, no retry), no record is consumed after it in    *)
(* that run, and __call__ has terminated with the error.                     *)
C8_BulkErrorFatal ==
    \A i \in 1..Len(log) :
        (log[i].op = "bulk" /\ log[i].status # StatusOk) =>
            /\ \A j \in 1..Len(log) : j > i => log[j].run > log[i].run
            /\ \A k \in 1..Len(yielded) :
                yielded[k].run = log[i].run => k <= log[i].at
            /\ log[i].run = run => (pc = "failed" /\ err = "bulk")

\* a bulk write failed after an earlier one of the same run had succeeded,
\* with records still in the stream
C8_Witness ==
    /\ pc = "failed" /\ err = "bulk"
    /\ Len(RunBulks(run)) >= 2
    /\ mode = "pkls" /\ gpc = "iter" /\ ei < Len(entries)

(* C9: a failed index creation ends the run with no record consumed and no   *)
(* bulk write issued, and the deletion is not undone: the index of the       *)
(* configured name stays absent.                                             *)
C9_CreateErrorFatal ==
    /\ \A r \in 1..run :
        LET L == RunLog(r) IN
        (\E i \in 1..Len(L) : L[i].op = "create" /\ L[i].status # StatusOk) =>
            /\ RunRecs(r) = <<>>
            /\ RunBulks(r) = <<>>
    /\ (log # <<>> /\ LastCall.op = "create" /\ LastCall.status # StatusOk) =>
        /\ LastCall.run = run => (pc = "failed" /\ err = "create")
        /\ ~indexExists
        /\ indexDocs = <<>>

\* the creation fails in a second run, after the first run had filled the
\* index that the second run deleted
C9_Witness ==
    /\ pc = "failed" /\ err = "create"
    /\ run = 2
    /\ RunBulks(1) # <<>>
    /\ RunBulks(1)[1].status = StatusOk
    /\ gpc # "finished"

(* C10: the record stream is single-pass: no record is yielded twice over    *)
(* the lifetime of the provider, and a __call__ entered after the stream is  *)
(* exhausted consumes no record and issues no bulk write; when it returns    *)
(* it has dropped and recreated the index, which holds no document.          *)
C10_SinglePass ==
    /\ \A i, j \in 1..Len(yielded) :
        yielded[i].rec.cord_id = yielded[j].rec.cord_id => i = j
    /\ startGpc = "finished" =>
        /\ RunRecs(run) = <<>>
        /\ RunBulks(run) = <<>>
        /\ pc = "done" =>
            /\ Len(RunLog(run)) = 2
            /\ RunLog(run)[1].op = "delete"
            /\ RunLog(run)[2].op = "create"
            /\ RunLog(run)[2].status = StatusOk
            /\ indexExists
            /\ indexDocs = <<>>

\* a second run returns after a first run that had indexed documents
C10_Witness ==
    /\ run = 2 /\ pc = "done" /\ startGpc = "finished"
    /\ mode = "pkls"
    /\ RunBulks(1) # <<>>
    /\ Len(yielded) >= 2

(* C11: every record submitted in a bulk write carries _op_type = 'index'    *)
(* and _index = the configured index name, whatever the yielded record held  *)
(* under these keys, and otherwise exactly the fields and values of a record *)
(* the stream yielded; the yielded record itself (the entry kept in the      *)
(* stream's list) is left as it was yielded.                                 *)
MetaKeys == {"_op_type", "_index"}

C11_Tagging ==
    /\ \A i \in 1..Len(log) : \A j \in 1..Len(log[i].batch) :
        LET b == log[i].batch[j] IN
        /\ Has(b, "_op_type") /\ b["_op_type"] = "index"
        /\ Has(b, "_index") /\ b["_index"] = IndexName
        /\ \E k \in 1..Len(yielded) :
            LET y == yielded[k].rec IN
            /\ y.cord_id = b.cord_id
            /\ DOMAIN b = DOMAIN y \cup MetaKeys
            /\ \A key \in DOMAIN y \ MetaKeys : b[key] = y[key]
    /\ (gpc = "iter" /\ ei >= 1) =>
        /\ yielded # <<>>
        /\ entries[ei] = yielded[Len(yielded)].rec
        /\ Has(Orig(entries[ei]), "_op_type") =>
                entries[ei]["_op_type"] = Orig(entries[ei])["_op_type"]
        /\ ~Has(Orig(entries[ei]), "_op_type") => ~Has(entries[ei], "_op_type")

\* a record that came with its own _op_type and _index was bulk-written
C11_Witness ==
    \E i \in 1..Len(log) :
        /\ log[i].op = "bulk" /\ Len(log[i].batch) = 1
        /\ Has(Orig(log[i].batch[1]), "_op_type")
        /\ Orig(log[i].batch[1])["_op_type"] = "delete"
        /\ log[i].batch[1]["_op_type"] = "index"
        /\ gpc = "iter" /\ ei = 1 /\ entries[1]["_op_type"] = "delete"

(* C12: every call of Elasticsearcher.__call__ issues one search on the      *)
(* configured index whose body asks for exactly 25 results, limits the       *)
(* source fields to title and abstract and scores match_all by               *)
(* cosineSimilarity(query_vector, title_abstract_embeddings) + 1.0 with the  *)
(* given vector; two calls with the same vector send identical bodies; the   *)
(* engine response is returned unchanged and the searcher is not modified.   *)
C12_QueryConstruction ==
    /\ searcher = [index_name |-> IndexName]
    /\ \A i \in 1..Len(searchLog) :
        LET q == searchLog[i] IN
        /\ q.index = IndexName
        /\ DOMAIN q.body = {"size", "query", "_source"}
        /\ q.body["size"] = 25
        /\ q.body["_source"] = [includes |-> <<"title", "abstract">>]
        /\ DOMAIN q.body["query"] = {"script_score"}
        /\ DOMAIN q.body["query"]["script_score"]["query"] = {"match_all"}
        /\ q.body["query"]["script_score"]["script"]["source"] = ScriptSource
        /\ q.body["query"]["script_score"]["script"]["params"] =
                [query_vector |-> q.vector]
        /\ q.returned = q.response
    /\ \A i, j \in 1..Len(searchLog) :
        searchLog[i].vector = searchLog[j].vector
            => searchLog[i].body = searchLog[j].body

\* two searches with the same vector, answered differently by the engine
C12_Witness ==
    /\ Len(searchLog) = 2
    /\ searchLog[1].vector = searchLog[2].vector
    /\ searchLog[1].response # searchLog[2].response
    /\ searchLog[2].returned = searchLog[2].response

(* C13: in a run that starts with an empty buffer, self.doc never holds      *)
(* more than batch_size records, holds fewer than batch_size records         *)
(* whenever a record has been fully processed (the loop is about to take the *)
(* next one, or has ended), and every bulk write submits exactly batch_size  *)
(* records.                                                                  *)
C13_BufferBounded ==
    startLen = 0 =>
        /\ Len(doc) <= batch_size
        /\ pc \in {"loop", "done"} => Len(doc) < batch_size
        /\ \A i \in 1..Len(log) :
            (log[i].op = "bulk" /\ log[i].run = run)
                => Len(log[i].batch) = batch_size

\* the buffer is full, after an earlier batch of the run was flushed
C13_Witness ==
    /\ startLen = 0 /\ pc = "appended"
    /\ batch_size >= 2
    /\ Len(doc) = batch_size
    /\ Len(RunBulks(run)) >= 1

\* what the from_pkls stream yields over a directory that holds only file f:
\* the entries before the first one that raises, truncated
PklsStream(f) ==
    [i \in 1..CleanCount(f) |->
        IF Has(files[f].recs[i], "paragraphs")
          THEN Truncate(files[f].recs[i], n_paragraphs)
          ELSE files[f].recs[i]]

AllYielded == [k \in 1..Len(yielded) |-> yielded[k].rec]

(* C14 as stated: over one readable pickle file the stream of a provider     *)
(* built by from_pkl (like that of from_pkls over a directory holding only   *)
(* that file) raises nothing into its consumer and, once it has ended, has   *)
(* yielded exactly the records the from_pkls stream yields for that file.    *)
C14_PklEqualsPkls ==
    (Len(files) = 1 /\ files[1].ok) =>
        /\ err # "stream"
        /\ gpc = "finished" => AllYielded = PklsStream(1)

\* the same statement for from_pkls alone, which the code satisfies
C14_PklsReference ==
    mode = "pkls" => C14_PklEqualsPkls

\* the positions of the records of file f that were yielded, and the ids of
\* the records that reached the buffer
YieldedOf(f) ==
    {yielded[k].rec.cord_id[2] : k \in {j \in 1..Len(yielded) :
                                            yielded[j].rec.cord_id[1] = f}}
BufferedIds ==
    {doc[j].cord_id : j \in 1..Len(doc)} \cup
    UNION {{log[i].batch[j].cord_id : j \in 1..Len(log[i].batch)} :
                i \in 1..Len(log)}

ErrorFree(f) == files[f].ok /\ CleanCount(f) = Len(files[f].recs)
PassedFile(f) == mode = "pkls" /\ (fi > f \/ gpc = "finished")

(* C15 as stated: a file whose processing fails is skipped as a whole: only  *)
(* records of files processed without error are yielded and reach the        *)
(* buffer.                                                                   *)
C15_AsStated ==
    /\ \A k \in 1..Len(yielded) : ErrorFree(yielded[k].rec.cord_id[1])
    /\ \A id \in BufferedIds : ErrorFree(id[1])

(* C15, amended: when processing of a file fails part-way, the records of    *)
(* that file that precede the failing record have been yielded and reach the *)
(* buffer; the failing record and the records after it are not. The records  *)
(* that reach the buffer are exactly the records of the files processed      *)
(* without error together with, for every other readable file, the records   *)
(* before its first failing record. Each failing file is logged once.        *)
C15_PartialSkip ==
    /\ \A f \in 1..Len(files) :
        /\ YieldedOf(f) \subseteq 1..CleanCount(f)
        /\ PassedFile(f) =>
            /\ YieldedOf(f) = 1..CleanCount(f)
            /\ Cardinality({w \in 1..Len(warnings) : warnings[w] = f})
                    = (IF ErrorFree(f) THEN 0 ELSE 1)
    /\ BufferedIds = {yielded[k].rec.cord_id : k \in 1..Len(yielded)}

\* a file whose second record fails, after its first record was yielded and
\* bulk-written
C15_Witness ==
    /\ mode = "pkls" /\ gpc = "finished"
    /\ \E f \in 1..Len(files) :
        /\ files[f].ok
        /\ CleanCount(f) = 1
        /\ Len(files[f].recs) = 2
        /\ YieldedOf(f) = {1}
        /\ \E i \in 1..Len(log) : \E j \in 1..Len(log[i].batch) :
                log[i].batch[j].cord_id = <<f, 1>>
        /\ \E w \in 1..Len(warnings) : warnings[w] = f

====
